---- MODULE Spec2Model ----
(***************************************************************************)
(* Model of SecurityStateController                                        *)
(* (internal/app/machined/pkg/controllers/runtime/security_state.go).      *)
(*                                                                         *)
(*   Spec        one invocation of SecurityStateController.Run together    *)
(*               with its environment: the context, the runtime's event    *)
(*               channel, the EFI variables, the PCR public key file and   *)
(*               the resource store behind safe.WriterModify.              *)
(*   SpecFp      x509CertFingerprint's formatting loop applied to digests  *)
(*               drawn from a bounded family.                              *)
(*   SpecModify  the modify-or-create calls of Run applied, in any order,  *)
(*               to a store that may already hold the resource.            *)
(***************************************************************************)
EXTENDS Integers, Sequences, FiniteSets, TLC

VARIABLES
    \* ---- SecurityStateController.Run and its environment (Spec)
    pc,               \* position of Run
    ret,              \* what Run returned ("none" while it is running)
    cancelled,        \* ctx.Done() is closed
    eventCh,          \* events buffered in r.EventCh() (capacity 1)
    signalled,        \* the runtime has delivered a scheduling signal
    efiSecureBoot,    \* EFI variable SecureBoot: "unreadable", 0 or 1
    efiSetupMode,     \* EFI variable SetupMode: "unreadable", 0 or 1
    keyFile,          \* the file at constants.PCRPublicKey: [err, data]
    secureBootState,  \* local variable of Run
    pcrPublicKeyData, \* local variable of Run
    block,            \* local variable of Run (result of pem.Decode)
    store,            \* the resources held by the runtime
    log,              \* history: the external calls Run has made, in order
    wake,             \* the case that woke Run while it was blocked in the select
    cancelAt,         \* history: where Run was, and whether a signal had been
                      \* delivered, when the context was cancelled
    lateSignals,      \* history: signals delivered after Run had returned
    \* ---- x509CertFingerprint on a digest (SpecFp)
    hash,             \* the digest handed to the formatting loop
    fingerprint,      \* its result
    fpDone,           \* the loop has run
    \* ---- the write primitive (SpecModify)
    mstore,           \* a resource store
    mlast,            \* the last call applied to mstore
    mbefore,          \* the call applied before that one
    mprev,            \* mstore before the last call
    mcalls            \* number of calls applied

runVars == <<pc, ret, cancelled, eventCh, signalled, efiSecureBoot, efiSetupMode,
             keyFile, secureBootState, pcrPublicKeyData, block, store, log,
             wake, cancelAt, lateSignals>>
fpVars == <<hash, fingerprint, fpDone>>
modVars == <<mstore, mlast, mbefore, mprev, mcalls>>
vars == <<runVars, fpVars, modVars>>

\* ------------------------------------------------------------------ bounds
MaxFileLen == 3      \* tokens in the key file
MaxSignals == 2      \* scheduling signals delivered after Run has returned
MaxDigestLen == 32   \* bytes of a digest in SpecFp
MaxRawLen == 2       \* bytes of a certificate body in SpecModify
MaxCalls == 3        \* calls applied in SpecModify

\* ------------------------------------------------------- program constants
DigestSize == 32     \* sha256.Size: len(hash) in x509CertFingerprint
ByteRange == 256     \* values of a Go byte


\* --------------------------------------------- encoding/hex, strings.ToUpper
\* hex.EncodeToString's table "0123456789abcdef"
hextable == <<"0", "1", "2", "3", "4", "5", "6", "7",
              "8", "9", "a", "b", "c", "d", "e", "f">>

\* A plausible slip: the low half of a byte is never written, its high half
\* is written twice.
EncodeToStringHighTwice(src) ==
    [k \in 1..(2 * Len(src)) |-> hextable[(src[(k + 1) \div 2] \div 16) + 1]]

\* hex.EncodeToString(src): two characters per byte, v>>4 then v&0x0f.
EncodeToString(src) ==
    [k \in 1..(2 * Len(src)) |->
        LET v == src[(k + 1) \div 2]
        IN  IF k % 2 = 1 THEN hextable[(v \div 16) + 1]
                         ELSE hextable[(v % 16) + 1]]

LowerLetters == <<"a", "b", "c", "d", "e", "f">>
UpperLetters == <<"A", "B", "C", "D", "E", "F">>

\* A plausible slip: the character is written as it comes from the encoder.
ToUpperOmitted(c) == c

\* strings.ToUpper(string(b)) for one character of the hex string.
ToUpper(c) ==
    IF \E k \in 1..Len(LowerLetters) : LowerLetters[k] = c
    THEN UpperLetters[CHOOSE k \in 1..Len(LowerLetters) : LowerLetters[k] = c]
    ELSE c

\* ------------------------------------------------------ x509CertFingerprint
\* A plausible slip: the i > 0 test is dropped (a leading colon).
WriteColonFromZero(i) == i % 2 = 0

\* A plausible slip: a colon after every three characters.
WriteColonEveryThird(i) == i > 0 /\ i % 3 = 0

\* The test of line 102, i the 0-based index of the character.
WriteColon(i) == i > 0 /\ i % 2 = 0

\* Lines 102-106: what the iteration for the character of 0-based index i
\* writes to the buffer.
LoopBody(str, i) ==
    (IF WriteColon(i) THEN <<":">> ELSE <<>>) \o <<ToUpper(str[i + 1])>>

\* The loop of lines 101-107 over the indices lo..hi-1: the buffer is only
\* appended to, so what the iterations write is concatenated in index order
\* (the range is halved to keep the evaluation shallow).
RECURSIVE FormatLoop(_, _, _)
FormatLoop(str, lo, hi) ==
    IF hi <= lo THEN <<>>
    ELSE IF hi = lo + 1 THEN LoopBody(str, lo)
    ELSE LET mid == (lo + hi) \div 2
         IN  FormatLoop(str, lo, mid) \o FormatLoop(str, mid, hi)

\* Lines 99-109: the string built from the digest.
FormatDigest(digest) ==
    LET hexstring == EncodeToString(digest)
    IN  FormatLoop(hexstring, 0, Len(hexstring))

\* sha256.Sum256 is not computed: a fixed deterministic function of the bytes
\* to DigestSize bytes stands for it.
RECURSIVE WeightedSum(_, _, _)
WeightedSum(raw, j, i) ==
    IF j > Len(raw) THEN 0
    ELSE (raw[j] + 1) * (i + 2 * j) + WeightedSum(raw, j + 1, i)

Sum256(raw) ==
    [i \in 1..DigestSize |-> (Len(raw) * 31 + i * 7 + WeightedSum(raw, 1, i)) % ByteRange]

\* x509CertFingerprint(cert), cert a record with the field Raw.
x509CertFingerprint(cert) == FormatDigest(Sum256(cert.Raw))

\* ------------------------------------------------------------ encoding/pem
\* The key file is a sequence of lines: a BEGIN line, an END line (each with
\* its type), a line of base64 text (standing for one decoded byte) or a line
\* that is not base64.
BeginLine(t) == [kind |-> "BEGIN", type |-> t, byte |-> 0]
EndLine(t) == [kind |-> "END", type |-> t, byte |-> 0]
DataLine(b) == [kind |-> "DATA", type |-> "", byte |-> b]
TextLine == [kind |-> "TEXT", type |-> "", byte |-> 0]

PemTypes == {"CERTIFICATE", "PUBLIC KEY"}
Lines == {BeginLine(t) : t \in PemTypes} \cup {EndLine(t) : t \in PemTypes}
            \cup {DataLine(0), TextLine}

NoBlock == [found |-> FALSE, Type |-> "", Bytes |-> <<>>]

\* Index of the first line of the kind in s, 0 when there is none.
FirstOfKind(s, kind) ==
    IF \E k \in 1..Len(s) : s[k].kind = kind
    THEN CHOOSE k \in 1..Len(s) :
            s[k].kind = kind /\ \A m \in 1..(k - 1) : s[m].kind # kind
    ELSE 0

\* pem.Decode(data): the first well-formed block, NoBlock (nil) when none.
\* After a BEGIN line whose block is malformed (no END line, an END line of
\* another type, or a body that is not base64) the search goes on behind
\* that BEGIN line.
RECURSIVE pemDecode(_)
pemDecode(data) ==
    LET b == FirstOfKind(data, "BEGIN")
    IN  IF b = 0 THEN NoBlock
        ELSE LET rest == SubSeq(data, b + 1, Len(data))
                 e == FirstOfKind(rest, "END")
                 body == SubSeq(rest, 1, e - 1)
             IN  IF e = 0 THEN pemDecode(rest)
                 ELSE IF /\ rest[e].type = data[b].type
                         /\ \A k \in 1..Len(body) : body[k].kind = "DATA"
                      THEN [found |-> TRUE, Type |-> data[b].type,
                            Bytes |-> [k \in 1..Len(body) |-> body[k].byte]]
                      ELSE pemDecode(rest)

\* os.ReadFile(constants.PCRPublicKey): the bytes and the error.
NoError == "nil"
ReadErrors == {"ENOENT", "EACCES", "EIO"}
ReadFile(file) == [data |-> file.data, err |-> file.err]

\* ------------------------------------------------- resources, WriterModify
NamespaceName == "runtime"
SecurityStateType == "SecurityStates.talos.dev"
SecurityStateID == "securitystate"

\* runtimeres.NewSecurityStateSpec(namespace): the resource with default fields.
NewSecurityStateSpec(namespace) ==
    [ns |-> namespace, type |-> SecurityStateType, id |-> SecurityStateID,
     SecureBoot |-> FALSE, PCRSigningKeyFingerprint |-> <<>>]

ResourceKey(r) == <<r.ns, r.type, r.id>>

\* The mutation functions of the two calls (lines 66 and 84), as values.
SetSecureBoot(posture) == [field |-> "SecureBoot", bool |-> posture, str |-> <<>>]
SetFingerprint(fp) == [field |-> "PCRSigningKeyFingerprint", bool |-> FALSE, str |-> fp]

\* A plausible slip: the posture is combined with the stored value (unequal)
\* instead of assigned.
ApplyFnCombines(fn, state) ==
    IF fn.field = "SecureBoot"
    THEN [state EXCEPT !.SecureBoot = (state.SecureBoot # fn.bool)]
    ELSE [state EXCEPT !.PCRSigningKeyFingerprint = fn.str]

\* The body of a mutation function applied to the resource (lines 66, 84).
ApplyFn(fn, state) ==
    IF fn.field = "SecureBoot"
    THEN [state EXCEPT !.SecureBoot = fn.bool]
    ELSE [state EXCEPT !.PCRSigningKeyFingerprint = fn.str]

\* A plausible slip: the mutated default resource is always added.
WriterModifyAlwaysCreate(st, emptyRes, fn) == st \cup {ApplyFn(fn, emptyRes)}

\* A plausible slip: the mutation is applied to the default resource, not to
\* the current one, which it then replaces.
WriterModifyFromDefault(st, emptyRes, fn) ==
    {r \in st : ResourceKey(r) # ResourceKey(emptyRes)} \cup {ApplyFn(fn, emptyRes)}

\* safe.WriterModify(ctx, r, emptyRes, fn) when the runtime accepts it: fn is
\* applied to the resource stored under emptyRes's key, or to emptyRes when
\* there is none, and the result is stored under that key.
WriterModify(st, emptyRes, fn) ==
    LET cur == {r \in st : ResourceKey(r) = ResourceKey(emptyRes)}
    IN  IF cur = {} THEN st \cup {ApplyFn(fn, emptyRes)}
        ELSE (st \ cur) \cup {ApplyFn(fn, r) : r \in cur}

SecurityStates(st) == {r \in st : r.type = SecurityStateType}

\* ------------------------------------------------------------ go-uefi/efi
EfiValues == {"unreadable", "0", "1"}

\* efi.GetSecureBoot(), efi.GetSetupMode(): true when the variable can be
\* read and holds 1, false otherwise (a variable that cannot be read too).
GetSecureBoot == efiSecureBoot = "1"
GetSetupMode == efiSetupMode = "1"

\* ------------------------------------------------------------------- files
RECURSIVE SeqsUpTo(_, _)
SeqsUpTo(S, n) ==
    IF n = 0 THEN {<<>>}
    ELSE LET shorter == SeqsUpTo(S, n - 1)
         IN  shorter \cup {Append(s, x) : s \in shorter, x \in S}

KeyFiles ==
    {[err |-> e, data |-> <<>>] : e \in ReadErrors}
        \cup {[err |-> NoError, data |-> d] : d \in SeqsUpTo(Lines, MaxFileLen)}

\* ---------------------------------------------------- the call history
Call(name, ok) == [call |-> name, ok |-> ok]
Calls(name) == {k \in 1..Len(log) : log[k].call = name}
OkCalls(name) == {k \in 1..Len(log) : log[k].call = name /\ log[k].ok}
ModifyCalls == Calls("WriterModify:SecureBoot") \cup Calls("WriterModify:PCRSigningKeyFingerprint")

\* ===================================================================== Run
NotCancelled == [phase |-> "never", signalled |-> FALSE]

\* Where Run is: before the select, blocked in it, past it, or returned.
Phase ==
    IF pc \in {"start", "select"} THEN "before select"
    ELSE IF pc = "blocked" THEN "waiting"
    ELSE IF pc = "returned" THEN "returned"
    ELSE "running"

RunStart ==
    /\ pc = "start"
    /\ ret = "none"
    /\ cancelled = FALSE
    /\ eventCh = 0
    /\ signalled = FALSE
    /\ secureBootState = FALSE
    /\ pcrPublicKeyData = <<>>
    /\ block = NoBlock
    /\ store = {}
    /\ log = <<>>
    /\ wake = "none"
    /\ cancelAt = NotCancelled
    /\ lateSignals = 0

RunInit ==
    /\ RunStart
    /\ efiSecureBoot \in EfiValues
    /\ efiSetupMode \in EfiValues
    /\ keyFile \in KeyFiles

FpIdle == hash = <<>> /\ fingerprint = <<>> /\ fpDone = FALSE

NoCall == [call |-> "none", bool |-> FALSE, raw |-> <<>>]
ModIdle == mstore = {} /\ mlast = NoCall /\ mbefore = NoCall /\ mprev = {} /\ mcalls = 0

Init == RunInit /\ FpIdle /\ ModIdle

Returned == pc = "returned"

\* ---- the environment
\* The context is cancelled (at any time). A Run blocked in the select that
\* nothing has woken yet is woken with the ctx.Done() case.
Cancel ==
    /\ ~cancelled
    /\ cancelled' = TRUE
    /\ cancelAt' = [phase |-> Phase, signalled |-> signalled]
    /\ wake' = IF pc = "blocked" /\ wake = "none" THEN "done" ELSE wake
    /\ UNCHANGED <<pc, ret, eventCh, signalled, efiSecureBoot, efiSetupMode, keyFile,
                   secureBootState, pcrPublicKeyData, block, store, log, lateSignals>>

\* The runtime delivers a scheduling signal: a non-blocking send on the
\* channel of capacity 1 (at any time, also after Run has returned). A Run
\* blocked in the select that nothing has woken yet receives it directly.
Signal ==
    /\ Returned => lateSignals < MaxSignals
    /\ signalled' = TRUE
    /\ IF pc = "blocked" /\ wake = "none"
       THEN wake' = "event" /\ eventCh' = eventCh
       ELSE wake' = wake /\ eventCh' = 1
    /\ lateSignals' = IF Returned THEN lateSignals + 1 ELSE lateSignals
    /\ UNCHANGED <<pc, ret, cancelled, efiSecureBoot, efiSetupMode, keyFile,
                   secureBootState, pcrPublicKeyData, block, store, log, cancelAt>>

\* ---- Run
\* A plausible slip: the body is a loop, the select is entered again after
\* a pass.
EnterSelectAgain ==
    /\ pc \in {"start", "returned"}
    /\ pc' = IF cancelled \/ eventCh > 0 THEN "select" ELSE "blocked"
    /\ UNCHANGED <<ret, cancelled, eventCh, signalled, efiSecureBoot, efiSetupMode,
                   keyFile, secureBootState, pcrPublicKeyData, block, store, log,
                   wake, cancelAt, lateSignals>>

\* Line 53: Run reaches the select; it blocks when no case is ready.
EnterSelect ==
    /\ pc = "start"
    /\ pc' = IF cancelled \/ eventCh > 0 THEN "select" ELSE "blocked"
    /\ UNCHANGED <<ret, cancelled, eventCh, signalled, efiSecureBoot, efiSetupMode,
                   keyFile, secureBootState, pcrPublicKeyData, block, store, log,
                   wake, cancelAt, lateSignals>>

\* A plausible slip: the ctx.Done() case falls through to the body.
SelectDoneFallsThrough ==
    /\ \/ pc = "select" /\ cancelled
       \/ pc = "blocked" /\ wake = "done"
    /\ pc' = "detect"
    /\ UNCHANGED <<ret, cancelled, eventCh, signalled, efiSecureBoot, efiSetupMode,
                   keyFile, secureBootState, pcrPublicKeyData, block, store, log,
                   wake, cancelAt, lateSignals>>

\* Lines 54-55: case <-ctx.Done(): return nil. The case is taken when it is
\* ready as Run reaches the select (one of the ready cases is chosen) or when
\* it is what woke the blocked Run.
SelectDone ==
    /\ \/ pc = "select" /\ cancelled
       \/ pc = "blocked" /\ wake = "done"
    /\ pc' = "returned"
    /\ ret' = "nil"
    /\ UNCHANGED <<cancelled, eventCh, signalled, efiSecureBoot, efiSetupMode, keyFile,
                   secureBootState, pcrPublicKeyData, block, store, log,
                   wake, cancelAt, lateSignals>>

\* Line 56: case <-r.EventCh():
SelectEvent ==
    /\ \/ pc = "select" /\ eventCh > 0 /\ eventCh' = eventCh - 1
       \/ pc = "blocked" /\ wake = "event" /\ eventCh' = eventCh
    /\ pc' = "detect"
    /\ UNCHANGED <<ret, cancelled, signalled, efiSecureBoot, efiSetupMode, keyFile,
                   secureBootState, pcrPublicKeyData, block, store, log,
                   wake, cancelAt, lateSignals>>

\* A plausible slip: secure boot alone decides.
PostureIgnoringSetupMode == GetSecureBoot

\* Line 61: the condition (GetSetupMode is called only when GetSecureBoot
\* returned true).
Posture == GetSecureBoot /\ ~GetSetupMode

\* Lines 59-63
DetectSecureBoot ==
    /\ pc = "detect"
    /\ secureBootState' = Posture
    /\ log' = log \o (IF GetSecureBoot
                      THEN <<Call("GetSecureBoot", TRUE), Call("GetSetupMode", TRUE)>>
                      ELSE <<Call("GetSecureBoot", TRUE)>>)
    /\ pc' = "posture"
    /\ UNCHANGED <<ret, cancelled, eventCh, signalled, efiSecureBoot, efiSetupMode,
                   keyFile, pcrPublicKeyData, block, store, wake, cancelAt, lateSignals>>

\* A plausible slip: the error of the call is dropped.
PublishPostureErrorDropped ==
    /\ pc = "posture"
    /\ \E ok \in BOOLEAN :
        /\ log' = Append(log, Call("WriterModify:SecureBoot", ok))
        /\ store' = IF ok
                    THEN WriterModify(store, NewSecurityStateSpec(NamespaceName),
                                      SetSecureBoot(secureBootState))
                    ELSE store
    /\ pc' = "readfile"
    /\ UNCHANGED <<ret, cancelled, eventCh, signalled, efiSecureBoot, efiSetupMode,
                   keyFile, secureBootState, pcrPublicKeyData, block,
                   wake, cancelAt, lateSignals>>

\* Lines 65-71: the runtime accepts the write or rejects it.
PublishPosture ==
    /\ pc = "posture"
    /\ \E ok \in BOOLEAN :
        /\ log' = Append(log, Call("WriterModify:SecureBoot", ok))
        /\ IF ok
           THEN /\ store' = WriterModify(store, NewSecurityStateSpec(NamespaceName),
                                         SetSecureBoot(secureBootState))
                /\ pc' = "readfile"
                /\ ret' = ret
           ELSE /\ store' = store
                /\ pc' = "returned"
                /\ ret' = "err: modify"
    /\ UNCHANGED <<cancelled, eventCh, signalled, efiSecureBoot, efiSetupMode, keyFile,
                   secureBootState, pcrPublicKeyData, block, wake, cancelAt, lateSignals>>

\* A plausible slip: the error of os.ReadFile is not looked at.
ReadKeyFileErrorIgnored ==
    /\ pc = "readfile"
    /\ log' = Append(log, Call("ReadFile", ReadFile(keyFile).err = NoError))
    /\ pcrPublicKeyData' = ReadFile(keyFile).data
    /\ pc' = "decode"
    /\ UNCHANGED <<ret, cancelled, eventCh, signalled, efiSecureBoot, efiSetupMode,
                   keyFile, secureBootState, block, store, wake, cancelAt, lateSignals>>

\* A plausible slip: only a missing file is skipped (os.IsNotExist), any
\* other error of os.ReadFile is returned.
ReadKeyFileOnlyNotExist ==
    /\ pc = "readfile"
    /\ log' = Append(log, Call("ReadFile", ReadFile(keyFile).err = NoError))
    /\ IF ReadFile(keyFile).err = NoError
       THEN /\ pcrPublicKeyData' = ReadFile(keyFile).data
            /\ pc' = "decode"
            /\ ret' = ret
       ELSE /\ pcrPublicKeyData' = pcrPublicKeyData
            /\ pc' = "returned"
            /\ ret' = IF ReadFile(keyFile).err = "ENOENT" THEN "nil" ELSE "err: read"
    /\ UNCHANGED <<cancelled, eventCh, signalled, efiSecureBoot, efiSetupMode, keyFile,
                   secureBootState, block, store, wake, cancelAt, lateSignals>>

\* Line 73, and line 93 when the read failed.
ReadKeyFile ==
    /\ pc = "readfile"
    /\ LET r == ReadFile(keyFile)
       IN  /\ log' = Append(log, Call("ReadFile", r.err = NoError))
           /\ IF r.err = NoError
              THEN /\ pcrPublicKeyData' = r.data
                   /\ pc' = "decode"
                   /\ ret' = ret
              ELSE /\ pcrPublicKeyData' = pcrPublicKeyData
                   /\ pc' = "returned"
                   /\ ret' = "nil"
    /\ UNCHANGED <<cancelled, eventCh, signalled, efiSecureBoot, efiSetupMode, keyFile,
                   secureBootState, block, store, wake, cancelAt, lateSignals>>

ErrDecode == "err: failed to decode PEM block for PCR public key"

\* A plausible slip: block is used without the nil test.
DecodePEMUnchecked ==
    /\ pc = "decode"
    /\ block' = pemDecode(pcrPublicKeyData)
    /\ pc' = "fingerprint"
    /\ UNCHANGED <<ret, cancelled, eventCh, signalled, efiSecureBoot, efiSetupMode,
                   keyFile, secureBootState, pcrPublicKeyData, store, log,
                   wake, cancelAt, lateSignals>>

\* A plausible slip: the resource is removed again when decoding fails.
DecodePEMRollsBack ==
    /\ pc = "decode"
    /\ block' = pemDecode(pcrPublicKeyData)
    /\ IF block'.found
       THEN pc' = "fingerprint" /\ ret' = ret /\ store' = store
       ELSE pc' = "returned" /\ ret' = ErrDecode /\ store' = {}
    /\ UNCHANGED <<cancelled, eventCh, signalled, efiSecureBoot, efiSetupMode, keyFile,
                   secureBootState, pcrPublicKeyData, log, wake, cancelAt, lateSignals>>

\* Lines 74-77
DecodePEM ==
    /\ pc = "decode"
    /\ block' = pemDecode(pcrPublicKeyData)
    /\ IF block'.found
       THEN pc' = "fingerprint" /\ ret' = ret
       ELSE pc' = "returned" /\ ret' = ErrDecode
    /\ UNCHANGED <<cancelled, eventCh, signalled, efiSecureBoot, efiSetupMode, keyFile,
                   secureBootState, pcrPublicKeyData, store, log,
                   wake, cancelAt, lateSignals>>

\* A plausible slip: the context is looked at again before the second write,
\* and a cancelled Run returns without making it.
PublishFingerprintChecksCtx ==
    /\ pc = "fingerprint"
    /\ pc' = "returned"
    /\ IF cancelled
       THEN /\ ret' = "nil"
            /\ UNCHANGED <<store, log>>
       ELSE \E ok \in BOOLEAN :
            /\ log' = Append(log, Call("WriterModify:PCRSigningKeyFingerprint", ok))
            /\ IF ok
               THEN /\ store' = WriterModify(store, NewSecurityStateSpec(NamespaceName),
                                             SetFingerprint(x509CertFingerprint([Raw |-> block.Bytes])))
                    /\ ret' = "nil"
               ELSE /\ store' = store
                    /\ ret' = "err: modify"
    /\ UNCHANGED <<cancelled, eventCh, signalled, efiSecureBoot, efiSetupMode, keyFile,
                   secureBootState, pcrPublicKeyData, block, wake, cancelAt, lateSignals>>

\* A plausible slip: a rejected fingerprint write is tried again.
PublishFingerprintRetries ==
    /\ pc = "fingerprint"
    /\ \E ok \in BOOLEAN :
        /\ log' = Append(log, Call("WriterModify:PCRSigningKeyFingerprint", ok))
        /\ IF ok
           THEN /\ store' = WriterModify(store, NewSecurityStateSpec(NamespaceName),
                                         SetFingerprint(x509CertFingerprint([Raw |-> block.Bytes])))
                /\ pc' = "returned"
                /\ ret' = "nil"
           ELSE /\ store' = store
                /\ pc' = IF Len(log) < 8 THEN "fingerprint" ELSE "returned"
                /\ ret' = IF Len(log) < 8 THEN ret ELSE "err: modify"
    /\ UNCHANGED <<cancelled, eventCh, signalled, efiSecureBoot, efiSetupMode, keyFile,
                   secureBootState, pcrPublicKeyData, block, wake, cancelAt, lateSignals>>

\* A plausible slip: the block is parsed as a certificate first, and a block
\* of another type is an error.
PublishFingerprintParsesCert ==
    /\ pc = "fingerprint"
    /\ pc' = "returned"
    /\ IF block.Type # "CERTIFICATE"
       THEN /\ ret' = "err: parse"
            /\ UNCHANGED <<store, log>>
       ELSE \E ok \in BOOLEAN :
            /\ log' = Append(log, Call("WriterModify:PCRSigningKeyFingerprint", ok))
            /\ IF ok
               THEN /\ store' = WriterModify(store, NewSecurityStateSpec(NamespaceName),
                                             SetFingerprint(x509CertFingerprint([Raw |-> block.Bytes])))
                    /\ ret' = "nil"
               ELSE /\ store' = store
                    /\ ret' = "err: modify"
    /\ UNCHANGED <<cancelled, eventCh, signalled, efiSecureBoot, efiSetupMode, keyFile,
                   secureBootState, pcrPublicKeyData, block, wake, cancelAt, lateSignals>>

\* Lines 79-89, and line 93 when the write succeeded.
PublishFingerprint ==
    /\ pc = "fingerprint"
    /\ LET certificate == [Raw |-> block.Bytes]
       IN  \E ok \in BOOLEAN :
            /\ log' = Append(log, Call("WriterModify:PCRSigningKeyFingerprint", ok))
            /\ pc' = "returned"
            /\ IF ok
               THEN /\ store' = WriterModify(store, NewSecurityStateSpec(NamespaceName),
                                             SetFingerprint(x509CertFingerprint(certificate)))
                    /\ ret' = "nil"
               ELSE /\ store' = store
                    /\ ret' = "err: modify"
    /\ UNCHANGED <<cancelled, eventCh, signalled, efiSecureBoot, efiSetupMode, keyFile,
                   secureBootState, pcrPublicKeyData, block, wake, cancelAt, lateSignals>>

Next ==
    \/ Cancel /\ UNCHANGED <<fpVars, modVars>>
    \/ Signal /\ UNCHANGED <<fpVars, modVars>>
    \/ EnterSelect /\ UNCHANGED <<fpVars, modVars>>
    \/ SelectDone /\ UNCHANGED <<fpVars, modVars>>
    \/ SelectEvent /\ UNCHANGED <<fpVars, modVars>>
    \/ DetectSecureBoot /\ UNCHANGED <<fpVars, modVars>>
    \/ PublishPosture /\ UNCHANGED <<fpVars, modVars>>
    \/ ReadKeyFile /\ UNCHANGED <<fpVars, modVars>>
    \/ DecodePEM /\ UNCHANGED <<fpVars, modVars>>
    \/ PublishFingerprint /\ UNCHANGED <<fpVars, modVars>>

Spec == Init /\ [][Next]_vars

\* ============================================ x509CertFingerprint on digests
DigestStarts == {17 * k : k \in 0..15} \cup {171}
DigestSteps == {0, 1, 34, 255}

\* The digest of n bytes that starts with a and goes on in steps of d.
DigestOf(a, d, n) == [i \in 1..n |-> (a + (i - 1) * d) % ByteRange]

Digests ==
    {DigestOf(a, d, n) : a \in DigestStarts, d \in DigestSteps, n \in 1..MaxDigestLen}
        \cup {<<a>> : a \in 0..(ByteRange - 1)}

RunIdle ==
    /\ RunStart
    /\ efiSecureBoot = "unreadable"
    /\ efiSetupMode = "unreadable"
    /\ keyFile = [err |-> "ENOENT", data |-> <<>>]

InitFp ==
    /\ RunIdle
    /\ ModIdle
    /\ hash \in Digests
    /\ fingerprint = <<>>
    /\ fpDone = FALSE

\* Lines 99-109 applied to hash.
Fingerprint ==
    /\ ~fpDone
    /\ fingerprint' = FormatDigest(hash)
    /\ fpDone' = TRUE
    /\ UNCHANGED <<hash, runVars, modVars>>

NextFp == Fingerprint

SpecFp == InitFp /\ [][NextFp]_vars

\* ===================================================== the write primitive
Raws == SeqsUpTo(0..1, MaxRawLen)

\* The stores the calls are applied to: empty, or holding the resource with
\* any posture and with no fingerprint or the fingerprint of a certificate.
InitialStores ==
    {{}} \cup
    {{ApplyFn(SetFingerprint(f), ApplyFn(SetSecureBoot(p), NewSecurityStateSpec(NamespaceName)))} :
        p \in BOOLEAN, f \in {<<>>} \cup {x509CertFingerprint([Raw |-> raw]) : raw \in Raws}}

InitModify ==
    /\ RunIdle
    /\ FpIdle
    /\ mstore \in InitialStores
    /\ mlast = NoCall
    /\ mbefore = NoCall
    /\ mprev = mstore
    /\ mcalls = 0

\* The call of lines 65-68 with the posture p, accepted by the runtime.
ModifyPosture ==
    /\ mcalls < MaxCalls
    /\ \E p \in BOOLEAN :
        /\ mstore' = WriterModify(mstore, NewSecurityStateSpec(NamespaceName), SetSecureBoot(p))
        /\ mlast' = [call |-> "SecureBoot", bool |-> p, raw |-> <<>>]
    /\ mbefore' = mlast
    /\ mprev' = mstore
    /\ mcalls' = mcalls + 1
    /\ UNCHANGED <<runVars, fpVars>>

\* The call of lines 83-86 for a certificate, accepted by the runtime.
ModifyFingerprint ==
    /\ mcalls < MaxCalls
    /\ \E raw \in Raws :
        /\ mstore' = WriterModify(mstore, NewSecurityStateSpec(NamespaceName),
                                  SetFingerprint(x509CertFingerprint([Raw |-> raw])))
        /\ mlast' = [call |-> "PCRSigningKeyFingerprint", bool |-> FALSE, raw |-> raw]
    /\ mbefore' = mlast
    /\ mprev' = mstore
    /\ mcalls' = mcalls + 1
    /\ UNCHANGED <<runVars, fpVars>>

NextModify == ModifyPosture \/ ModifyFingerprint

SpecModify == InitModify /\ [][NextModify]_vars

\* ================================================================== claims
PostureCall == "WriterModify:SecureBoot"
FingerprintCall == "WriterModify:PCRSigningKeyFingerprint"

\* The key file's lines hold a well-formed block: a BEGIN line, then only
\* base64 lines, then an END line of the same type.
HasPemBlock(data) ==
    \E i \in 1..Len(data), j \in 1..Len(data) :
        /\ i < j
        /\ data[i].kind = "BEGIN"
        /\ data[j].kind = "END"
        /\ data[j].type = data[i].type
        /\ \A k \in (i + 1)..(j - 1) : data[k].kind = "DATA"

\* C1: once the first write has succeeded, the published secureBoot is true
\* exactly when the SecureBoot variable reads 1 and the SetupMode variable
\* does not (a variable that cannot be read counts as false): true for
\* (true, false), false for the three other combinations.
C1_PostureTruthTable ==
    OkCalls(PostureCall) # {} =>
        /\ SecurityStates(store) # {}
        /\ \A r \in SecurityStates(store) :
            LET enabled == efiSecureBoot = "1"
                setupMode == efiSetupMode = "1"
            IN  /\ (enabled /\ ~setupMode) => r.SecureBoot = TRUE
                /\ (enabled /\ setupMode) => r.SecureBoot = FALSE
                /\ (~enabled /\ setupMode) => r.SecureBoot = FALSE
                /\ (~enabled /\ ~setupMode) => r.SecureBoot = FALSE

C1_Witness ==
    /\ OkCalls(PostureCall) # {}
    /\ efiSecureBoot = "1"
    /\ efiSetupMode = "unreadable"
    /\ \E r \in store : r.SecureBoot = TRUE

\* C2: when the cancellation arrives while Run is blocked in the select and
\* no scheduling signal has been delivered yet, Run makes no firmware query,
\* no key file read and no write, leaves the store as it was, and what it
\* returns is nil.
C2_CancelWhileWaiting ==
    cancelAt = [phase |-> "waiting", signalled |-> FALSE] =>
        /\ log = <<>>
        /\ store = {}
        /\ pc \in {"blocked", "returned"}
        /\ Returned => ret = "nil"

C2_Witness ==
    /\ cancelAt = [phase |-> "waiting", signalled |-> FALSE]
    /\ Returned
    /\ ret = "nil"
    /\ signalled
    /\ log = <<>>

\* C3: with no key file (ENOENT), once the posture write has succeeded, Run
\* makes no fingerprint write, returns nil, and the resource's
\* pcrSigningKeyFingerprint is empty.
C3_NoKeyFile ==
    (keyFile.err = "ENOENT" /\ OkCalls(PostureCall) # {}) =>
        /\ Calls(FingerprintCall) = {}
        /\ \A r \in SecurityStates(store) : r.PCRSigningKeyFingerprint = <<>>
        /\ Returned => ret = "nil"

C3_Witness ==
    /\ keyFile.err = "ENOENT"
    /\ OkCalls(PostureCall) # {}
    /\ Calls("ReadFile") # {}
    /\ Returned
    /\ ret = "nil"
    /\ \E r \in store : r.PCRSigningKeyFingerprint = <<>>

\* C4: when the key file was read and its bytes hold no PEM block, Run makes
\* no fingerprint write and what it returns is the decode error.
C4_NoPemBlockIsFatal ==
    (OkCalls("ReadFile") # {} /\ ~HasPemBlock(keyFile.data)) =>
        /\ Calls(FingerprintCall) = {}
        /\ pc \in {"decode", "returned"}
        /\ Returned => ret = ErrDecode

C4_Witness ==
    /\ OkCalls("ReadFile") # {}
    /\ keyFile.data = <<TextLine, DataLine(0)>>
    /\ Returned
    /\ ret = ErrDecode
    /\ Calls(FingerprintCall) = {}

\* C5: a rejected write ends Run with that error and is the last call Run
\* makes: after a rejected posture write there is no key file read and no
\* fingerprint write, and neither write is made more than once.
C5_RejectedWriteIsFatal ==
    /\ Cardinality(Calls(PostureCall)) <= 1
    /\ Cardinality(Calls(FingerprintCall)) <= 1
    /\ \A k \in ModifyCalls :
        ~log[k].ok =>
            /\ k = Len(log)
            /\ Returned
            /\ ret = "err: modify"
    /\ (Calls(PostureCall) # {} /\ OkCalls(PostureCall) = {}) =>
            Calls("ReadFile") = {} /\ Calls(FingerprintCall) = {}

C5_Witness ==
    /\ Calls(PostureCall) # {}
    /\ OkCalls(PostureCall) = {}
    /\ Returned
    /\ ret = "err: modify"
    /\ keyFile.err = NoError
    /\ HasPemBlock(keyFile.data)

\* C6: once Run has returned it stays returned and neither the store nor the
\* calls made change any more, whatever signals are delivered.
C6_NothingAfterReturn ==
    [][Returned => (Returned' /\ store' = store /\ log' = log /\ ret' = ret)]_vars

C6_Witness ==
    /\ Returned
    /\ OkCalls(FingerprintCall) # {}
    /\ lateSignals = MaxSignals
    /\ eventCh = 1

\* C7: there is never more than one SecurityState resource, and it is stored
\* under the fixed key.
C7_Singleton ==
    /\ Cardinality(SecurityStates(store)) <= 1
    /\ \A r \in store :
        ResourceKey(r) = <<NamespaceName, SecurityStateType, SecurityStateID>>

C7_Witness ==
    /\ OkCalls(PostureCall) # {}
    /\ OkCalls(FingerprintCall) # {}
    /\ Cardinality(SecurityStates(store)) = 1
    /\ \E r \in store : r.SecureBoot /\ r.PCRSigningKeyFingerprint # <<>>

\* ---- the reference format of a fingerprint
RefUpperCase ==
    [c \in {hextable[k] : k \in 1..Len(hextable)} |->
        CASE c = "a" -> "A" [] c = "b" -> "B" [] c = "c" -> "C"
          [] c = "d" -> "D" [] c = "e" -> "E" [] c = "f" -> "F"
          [] OTHER -> c]

\* The hex encoding of the digest, two characters per byte.
RefHex(digest) ==
    [k \in 1..(2 * Len(digest)) |->
        hextable[(IF k % 2 = 1 THEN digest[(k + 1) \div 2] \div 16
                               ELSE digest[k \div 2] % 16) + 1]]

\* Its upper-cased two-character groups, one per byte.
RefGroups(digest) ==
    LET hexOfDigest == RefHex(digest)
    IN  [g \in 1..Len(digest) |->
            <<RefUpperCase[hexOfDigest[2 * g - 1]], RefUpperCase[hexOfDigest[2 * g]]>>]

\* The groups joined with ":" (none before the first, none after the last).
RefJoin(groups) ==
    [q \in 1..(3 * Len(groups) - 1) |->
        IF q % 3 = 0 THEN ":" ELSE groups[(q + 2) \div 3][q % 3]]

RefFingerprint(digest) == RefJoin(RefGroups(digest))

\* C8: the fingerprint of a digest is the digest's hex encoding, upper-cased,
\* its two-character groups joined with ":"; the digest AB CD EF ... gives a
\* fingerprint that starts "AB:CD:EF:".
C8_FingerprintIsReference ==
    fpDone =>
        /\ fingerprint = RefFingerprint(hash)
        /\ (Len(hash) > 3 /\ SubSeq(hash, 1, 3) = <<171, 205, 239>>) =>
                SubSeq(fingerprint, 1, 9) = <<"A", "B", ":", "C", "D", ":", "E", "F", ":">>

C8_Witness ==
    /\ fpDone
    /\ Len(hash) = DigestSize
    /\ SubSeq(hash, 1, 3) = <<171, 205, 239>>
    /\ SubSeq(fingerprint, 1, 9) = <<"A", "B", ":", "C", "D", ":", "E", "F", ":">>

\* C9: the fingerprint of a digest of n >= 1 bytes has 3n - 1 characters and
\* its colons are exactly at the 0-based positions q with q mod 3 = 2; for
\* 32 bytes that is 95 characters, 31 of them colons.
C9_LengthAndColons ==
    fpDone =>
        /\ Len(fingerprint) = 3 * Len(hash) - 1
        /\ \A q \in 0..(Len(fingerprint) - 1) : (fingerprint[q + 1] = ":") <=> (q % 3 = 2)
        /\ Len(hash) = 32 =>
            /\ Len(fingerprint) = 95
            /\ Cardinality({q \in 1..Len(fingerprint) : fingerprint[q] = ":"}) = 31

C9_Witness ==
    /\ fpDone
    /\ Len(hash) = 32
    /\ Len(fingerprint) = 95
    /\ fingerprint[3] = ":"
    /\ fingerprint[93] = ":"
    /\ fingerprint[95] # ":"

\* The fields of the resource a reader sees.
Observable(st) ==
    {[secureBoot |-> r.SecureBoot, pcrSigningKeyFingerprint |-> r.PCRSigningKeyFingerprint] :
        r \in SecurityStates(st)}

\* C10: a posture write applied right after a posture write of the same
\* value leaves secureBoot and pcrSigningKeyFingerprint as the first left
\* them.
C10_PostureWriteIdempotent ==
    (mcalls >= 2 /\ mlast.call = "SecureBoot" /\ mbefore = mlast) =>
        Observable(mstore) = Observable(mprev)

C10_Witness ==
    /\ mcalls >= 2
    /\ mlast.call = "SecureBoot"
    /\ mlast.bool = TRUE
    /\ mbefore = mlast
    /\ Observable(mstore) = Observable(mprev)
    /\ \E r \in mstore : r.SecureBoot /\ r.PCRSigningKeyFingerprint # <<>>

\* C11: each write changes only its own field. A posture write leaves the
\* pcrSigningKeyFingerprint of an existing resource as it was and sets
\* secureBoot; a fingerprint write leaves secureBoot as it was and sets the
\* fingerprint; after a posture write followed by a fingerprint write the
\* resource holds that posture together with that fingerprint.
C11_WritesOwnFieldOnly ==
    /\ (mcalls >= 1 /\ mlast.call = "SecureBoot") =>
        /\ \A r \in SecurityStates(mstore) : r.SecureBoot = mlast.bool
        /\ \A old \in SecurityStates(mprev), r \in SecurityStates(mstore) :
            r.PCRSigningKeyFingerprint = old.PCRSigningKeyFingerprint
    /\ (mcalls >= 1 /\ mlast.call = "PCRSigningKeyFingerprint") =>
        /\ \A r \in SecurityStates(mstore) :
            r.PCRSigningKeyFingerprint = RefFingerprint(Sum256(mlast.raw))
        /\ \A old \in SecurityStates(mprev), r \in SecurityStates(mstore) :
            r.SecureBoot = old.SecureBoot
    /\ (mcalls >= 2 /\ mbefore.call = "SecureBoot" /\ mlast.call = "PCRSigningKeyFingerprint") =>
        Observable(mstore) =
            {[secureBoot |-> mbefore.bool,
              pcrSigningKeyFingerprint |-> RefFingerprint(Sum256(mlast.raw))]}

C11_Witness ==
    /\ mcalls = 1
    /\ mlast.call = "SecureBoot"
    /\ mlast.bool = TRUE
    /\ \E old \in mprev : ~old.SecureBoot /\ old.PCRSigningKeyFingerprint # <<>>
    /\ \E r \in mstore : r.SecureBoot /\ r.PCRSigningKeyFingerprint # <<>>

\* ---- what an invocation that got the scheduling event does, as a function
\* of the EFI variables, the key file and the runtime's answers to the two
\* writes (ok1 for the posture, ok2 for the fingerprint)
RefPosture == efiSecureBoot = "1" /\ efiSetupMode # "1"

RefResource(posture, fp) ==
    [ns |-> NamespaceName, type |-> SecurityStateType, id |-> SecurityStateID,
     SecureBoot |-> posture, PCRSigningKeyFingerprint |-> fp]

RefEfiCalls ==
    IF efiSecureBoot = "1"
    THEN <<Call("GetSecureBoot", TRUE), Call("GetSetupMode", TRUE)>>
    ELSE <<Call("GetSecureBoot", TRUE)>>

RefOutcome(ok1, ok2) ==
    LET log1 == Append(RefEfiCalls, Call(PostureCall, ok1))
        log2 == Append(log1, Call("ReadFile", keyFile.err = NoError))
        log3 == Append(log2, Call(FingerprintCall, ok2))
        store1 == {RefResource(RefPosture, <<>>)}
        store2 == {RefResource(RefPosture,
                               RefFingerprint(Sum256(pemDecode(keyFile.data).Bytes)))}
    IN  IF ~ok1 THEN [ret |-> "err: modify", store |-> {}, log |-> log1]
        ELSE IF keyFile.err # NoError THEN [ret |-> "nil", store |-> store1, log |-> log2]
        ELSE IF ~HasPemBlock(keyFile.data) THEN [ret |-> ErrDecode, store |-> store1, log |-> log2]
        ELSE IF ~ok2 THEN [ret |-> "err: modify", store |-> store1, log |-> log3]
        ELSE [ret |-> "nil", store |-> store2, log |-> log3]

Outcome == [ret |-> ret, store |-> store, log |-> log]

\* A step of Run past the select.
BodyStep ==
    \/ DetectSecureBoot
    \/ PublishPosture
    \/ ReadKeyFile
    \/ DecodePEM
    \/ PublishFingerprint

C13_PostureThenFingerprint ==
    /\ Cardinality(ModifyCalls) <= 2
    /\ Cardinality(Calls(PostureCall)) <= 1
    /\ \A k \in Calls(FingerprintCall) : \E j \in OkCalls(PostureCall) : j < k
    /\ \A r \in store :
        r.PCRSigningKeyFingerprint # <<>> =>
            /\ OkCalls(PostureCall) # {}
            /\ r.SecureBoot = RefPosture

C13_Witness ==
    /\ Cardinality(ModifyCalls) = 2
    /\ \E j \in OkCalls(PostureCall), k \in OkCalls(FingerprintCall) : j < k
    /\ \E r \in store : r.PCRSigningKeyFingerprint # <<>> /\ r.SecureBoot

\* C14: whatever error os.ReadFile returns (not found, permission denied, an
\* I/O error), Run makes no fingerprint write and returns nil; past an
\* accepted posture write Run returns an error only when the file was read,
\* and the decode error only when the bytes read hold no PEM block.
C14_AnyReadErrorSkips ==
    /\ (keyFile.err \in ReadErrors /\ Calls("ReadFile") # {}) =>
        /\ Calls(FingerprintCall) = {}
        /\ Returned
        /\ ret = "nil"
    /\ (Returned /\ OkCalls(PostureCall) # {} /\ ret # "nil") => keyFile.err = NoError
    /\ ret = ErrDecode => (OkCalls("ReadFile") # {} /\ ~HasPemBlock(keyFile.data))

C14_Witness ==
    /\ keyFile.err = "EACCES"
    /\ Calls("ReadFile") # {}
    /\ OkCalls("ReadFile") = {}
    /\ Returned
    /\ ret = "nil"
    /\ Calls(FingerprintCall) = {}

\* ---- scheduling: Run is a goroutine of its own, and a goroutine that can
\* take a step is eventually run (a Run blocked in the select can take none).
RunStep ==
    (EnterSelect \/ SelectDone \/ SelectEvent \/ BodyStep) /\ UNCHANGED <<fpVars, modVars>>

\* The key files of the liveness check: the read errors, and the files made
\* of the lines of one block type (whether Run returns does not depend on
\* more of the file than whether a block is found).
LiveKeyFiles ==
    {[err |-> e, data |-> <<>>] : e \in ReadErrors}
        \cup {[err |-> NoError, data |-> d] :
                d \in SeqsUpTo({BeginLine("CERTIFICATE"), EndLine("CERTIFICATE"),
                                DataLine(0), TextLine}, MaxFileLen)}

InitLive == Init /\ keyFile \in LiveKeyFiles

SpecLive == InitLive /\ [][Next]_vars /\ WF_vars(RunStep)

EachStepAtMostOnce ==
    /\ Cardinality(Calls("GetSecureBoot")) <= 1
    /\ Cardinality(Calls("GetSetupMode")) <= 1
    /\ Cardinality(Calls(PostureCall)) <= 1
    /\ Cardinality(Calls("ReadFile")) <= 1
    /\ Cardinality(Calls(FingerprintCall)) <= 1

\* C15: the firmware queries, the posture write, the key file read and the
\* fingerprint write are each made at most once in an invocation, and once a
\* scheduling signal or the cancellation has been delivered Run eventually
\* returns.
C15_ReturnsWithoutRetry ==
    /\ []EachStepAtMostOnce
    /\ (cancelled \/ signalled) ~> Returned

C15_Witness ==
    /\ Returned
    /\ signalled
    /\ ~cancelled
    /\ Cardinality(Calls("GetSecureBoot")) = 1
    /\ Cardinality(Calls("GetSetupMode")) = 1
    /\ Cardinality(Calls(PostureCall)) = 1
    /\ Cardinality(Calls("ReadFile")) = 1
    /\ Cardinality(Calls(FingerprintCall)) = 1
    /\ ret = "err: modify"

\* C16: when Run has returned the decode error, the posture write of the
\* invocation is committed: the store holds the resource with secureBoot
\* equal to the computed posture and with an empty fingerprint.
C16_DecodeErrorKeepsPosture ==
    ret = ErrDecode =>
        /\ OkCalls(PostureCall) # {}
        /\ Calls(FingerprintCall) = {}
        /\ store = {RefResource(RefPosture, <<>>)}

C16_Witness ==
    /\ Returned
    /\ ret = ErrDecode
    /\ efiSecureBoot = "1"
    /\ efiSetupMode = "0"
    /\ keyFile.data = <<BeginLine("CERTIFICATE"), DataLine(0), EndLine("PUBLIC KEY")>>
    /\ store = {RefResource(TRUE, <<>>)}

\* ---- reading a fingerprint back
FingerprintDigits ==
    <<"0", "1", "2", "3", "4", "5", "6", "7", "8", "9", "A", "B", "C", "D", "E", "F">>

NotColon(c) == c # ":"
StripColons(s) == SelectSeq(s, NotColon)

\* The value of an upper-case hex digit (0 for any other character).
DigitValue(c) ==
    IF \E k \in 1..Len(FingerprintDigits) : FingerprintDigits[k] = c
    THEN (CHOOSE k \in 1..Len(FingerprintDigits) : FingerprintDigits[k] = c) - 1
    ELSE 0

\* The bytes a string of upper-case hex digits stands for.
ParseHex(s) ==
    [k \in 1..(Len(s) \div 2) |-> 16 * DigitValue(s[2 * k - 1]) + DigitValue(s[2 * k])]

\* The digests that differ from d in its first or its last byte only.
Neighbours(d) ==
    {[d EXCEPT ![k] = (d[k] + delta) % ByteRange] : k \in {1, Len(d)}, delta \in {1, 16}}

\* C17: the fingerprint loses nothing of the digest. Without its colons it is
\* the upper-cased hex encoding of the digest, which read back gives the
\* digest; a digest of the same length that differs has another fingerprint;
\* every character is one of 0-9, A-F and ':'.
C17_FingerprintLossless ==
    fpDone =>
        /\ LET hexOfHash == RefHex(hash)
           IN  StripColons(fingerprint) =
                    [k \in 1..(2 * Len(hash)) |-> RefUpperCase[hexOfHash[k]]]
        /\ ParseHex(StripColons(fingerprint)) = hash
        /\ \A d \in Neighbours(hash) : FormatDigest(d) # fingerprint
        /\ \A k \in 1..Len(fingerprint) :
                \/ fingerprint[k] = ":"
                \/ \E n \in 1..Len(FingerprintDigits) : FingerprintDigits[n] = fingerprint[k]

C17_Witness ==
    /\ fpDone
    /\ Len(hash) = DigestSize
    /\ hash[1] = 171
    /\ Len(StripColons(fingerprint)) = 2 * DigestSize
    /\ ParseHex(StripColons(fingerprint)) = hash
    /\ SubSeq(StripColons(fingerprint), 1, 4) = <<"A", "B", "C", "D">>

\* Lines i..j of the file are a well-formed block.
IsBlock(data, i, j) ==
    /\ i < j
    /\ data[i].kind = "BEGIN"
    /\ data[j].kind = "END"
    /\ data[j].type = data[i].type
    /\ \A k \in (i + 1)..(j - 1) : data[k].kind = "DATA"

\* The bytes of the first well-formed block of a file that holds one.
FirstBlockBytes(data) ==
    LET i == CHOOSE i \in 1..Len(data) :
                /\ \E j \in 1..Len(data) : IsBlock(data, i, j)
                /\ \A h \in 1..(i - 1) : \A j \in 1..Len(data) : ~IsBlock(data, h, j)
        j == CHOOSE j \in 1..Len(data) : IsBlock(data, i, j)
    IN  [k \in 1..(j - i - 1) |-> data[i + k].byte]

\* C18: nothing can fail between pem.Decode and the fingerprint write. A
\* fingerprint write is made only when the posture write succeeded, the file
\* was read and its bytes hold a PEM block, and once Run has returned from
\* its body it was made whenever these hold, whatever the type of the block;
\* when it succeeds, Run returns nil and the resource holds the fingerprint
\* of the block's bytes.
C18_DecodedBlockIsPublished ==
    LET due == /\ OkCalls(PostureCall) # {}
               /\ keyFile.err = NoError
               /\ HasPemBlock(keyFile.data)
    IN  /\ Calls(FingerprintCall) # {} => due
        /\ (Returned /\ due) => Calls(FingerprintCall) # {}
        /\ OkCalls(FingerprintCall) # {} =>
            /\ Returned
            /\ ret = "nil"
            /\ store = {RefResource(RefPosture,
                                    RefFingerprint(Sum256(FirstBlockBytes(keyFile.data))))}

C18_Witness ==
    /\ Returned
    /\ ret = "nil"
    /\ keyFile.data = <<BeginLine("PUBLIC KEY"), DataLine(0), EndLine("PUBLIC KEY")>>
    /\ OkCalls(FingerprintCall) # {}
    /\ store = {RefResource(RefPosture, RefFingerprint(Sum256(<<0>>)))}

====
